---------------------------- MODULE Spec2Model ----------------------------
(***************************************************************************)
(* Outlier-detection engine of src/index.js: getStats, the seven           *)
(* findOutliers* methods, the method catalog and runAllAnalyses.           *)
(*                                                                         *)
(* Every value of the program is a JavaScript Number (IEEE-754 binary64).  *)
(* The detection rules compare rounded quotients with thresholds, and the  *)
(* rounding decides the comparison when the exact quotient equals the      *)
(* threshold, so Numbers are modelled bit-exactly: a Number is the record  *)
(* [k, s, m, e] standing for (-1)^s * m * 2^e, m an odd natural number     *)
(* held as a little-endian sequence of limbs (TLC's integers are 32 bits   *)
(* wide), and every arithmetic operation rounds its exact result to 53     *)
(* significant bits, to nearest, ties to even, within the exponent range   *)
(* of binary64: a result of 2^1024 or more is Infinity, and below 2^-1022  *)
(* a result is rounded to a multiple of 2^-1074 (0 when it is at most half *)
(* of that).  The sign of zero is not modelled: no divisor of the program  *)
(* can be -0 and the comparisons do not tell -0 from 0.                    *)
(***************************************************************************)
EXTENDS Integers, Sequences, FiniteSets, TLC

(***************************************************************************)
(* Loops.  Iter runs Step over lo..hi in increasing order, as a for loop   *)
(* does, threading the loop's state through acc.  It splits the range in   *)
(* halves and evaluates the state before descending, so that the depth of  *)
(* evaluation grows with the logarithm of the number of iterations.        *)
(***************************************************************************)
RECURSIVE Iter(_, _, _, _)
Iter(Step(_, _), lo, hi, acc) ==
    IF lo > hi \/ acc # acc THEN acc
    ELSE IF lo = hi THEN Step(acc, lo)
    ELSE Iter(Step, ((lo + hi) \div 2) + 1, hi, Iter(Step, lo, (lo + hi) \div 2, acc))

\* F(v), with v evaluated once and first: a const declaration followed by
\* the code in its scope
Bind(v, F(_)) == CASE v = v -> F(v)

Max2(a, b) == IF a >= b THEN a ELSE b
Min2(a, b) == IF a <= b THEN a ELSE b
SetMax(S) == CHOOSE m \in S : \A j \in S : j <= m
SetMin(S) == CHOOSE m \in S : \A j \in S : m <= j

(***************************************************************************)
(* Natural numbers of arbitrary size: little-endian limb sequences, no     *)
(* most-significant zero limb, <<>> for 0.                                 *)
(***************************************************************************)
LimbBits == 15
Base == 2^LimbBits
MantBits == 53
MaxExponent == 1024     \* 2^1024 and more is Infinity
MinExponent == -1074    \* 2^-1074 is the least positive Number

Pow2(k) == 2^k

\* limb i of a, 0 outside 1..Len(a)
Limb(a, i) == IF i >= 1 /\ i <= Len(a) THEN a[i] ELSE 0

BTrim(a) ==
    LET nz == {i \in 1..Len(a) : a[i] # 0}
    IN  IF nz = {} THEN <<>> ELSE SubSeq(a, 1, SetMax(nz))

BFromInt(n) ==
    BTrim(<<n % Base, (n \div Base) % Base, n \div (Base * Base)>>)

BToInt(a) == Limb(a, 1) + Base * Limb(a, 2) + Base * Base * Limb(a, 3)

\* -1, 0, 1 as a < b, a = b, a > b
BCmp(a, b) ==
    IF Len(a) < Len(b) THEN -1
    ELSE IF Len(a) > Len(b) THEN 1
    ELSE LET df == {i \in 1..Len(a) : a[i] # b[i]}
         IN  IF df = {} THEN 0
             ELSE IF a[SetMax(df)] < b[SetMax(df)] THEN -1 ELSE 1

\* The carry into limb i is 1 when some lower limb pair overflows and every
\* pair between it and i sums to Base - 1.
BAdd(a, b) ==
    LET n == Max2(Len(a), Len(b))
        G(i) == Limb(a, i) + Limb(b, i)
        C(i) == IF \E j \in 1..(i - 1) :
                     G(j) >= Base /\ \A k \in (j + 1)..(i - 1) : G(k) = Base - 1
                THEN 1 ELSE 0
    IN  BTrim([i \in 1..(n + 1) |-> (G(i) + C(i)) % Base])

\* a - b for a >= b; the borrow into limb i, likewise
BSub(a, b) ==
    LET n == Len(a)
        W(i) == IF \E j \in 1..(i - 1) :
                     Limb(a, j) < Limb(b, j)
                     /\ \A k \in (j + 1)..(i - 1) : Limb(a, k) = Limb(b, k)
                THEN 1 ELSE 0
    IN  BTrim([i \in 1..n |-> (a[i] - Limb(b, i) - W(i) + Base) % Base])

\* a * k for a limb k: the low halves of the limb products plus the high
\* halves one limb up
BMulSmall(a, k) ==
    BAdd(BTrim([i \in 1..Len(a) |-> (a[i] * k) % Base]),
         BTrim([i \in 1..(Len(a) + 1) |-> (Limb(a, i - 1) * k) \div Base]))

ShiftLimbs(a, n) == IF a = <<>> THEN <<>> ELSE [i \in 1..n |-> 0] \o a

BMul(a, b) ==
    Iter(LAMBDA acc, j : BAdd(acc, ShiftLimbs(BMulSmall(a, b[j]), j - 1)),
         1, Len(b), <<>>)

\* a * 2^n and floor(a / 2^n)
BShl(a, n) ==
    LET r == n % LimbBits
    IN  ShiftLimbs(BTrim([i \in 1..(Len(a) + 1) |->
                             ((Limb(a, i) * Pow2(r)) % Base)
                             + (Limb(a, i - 1) \div Pow2(LimbBits - r))]),
                   n \div LimbBits)

BShr(a, n) ==
    LET r == n % LimbBits
        q == n \div LimbBits
    IN  BTrim([i \in 1..(Len(a) - q) |->
                  (Limb(a, i + q) \div Pow2(r))
                  + (Limb(a, i + q + 1) % Pow2(r)) * Pow2(LimbBits - r)])

IntBitLen(n) == CHOOSE k \in 0..30 : n < Pow2(k) /\ (k = 0 \/ n >= Pow2(k - 1))

BBitLen(a) ==
    IF a = <<>> THEN 0 ELSE (Len(a) - 1) * LimbBits + IntBitLen(a[Len(a)])

BIsOdd(a) == a # <<>> /\ a[1] % 2 = 1

\* number of trailing zero bits of a # 0
BTrailingZeros(a) ==
    LET j == SetMin({i \in 1..Len(a) : a[i] # 0})
    IN  (j - 1) * LimbBits
        + (CHOOSE t \in 0..(LimbBits - 1) :
               a[j] % Pow2(t) = 0 /\ a[j] % Pow2(t + 1) # 0)

\* the quotient digit: the estimate from the top limbs, lowered until d * q <= r
RECURSIVE QDigit(_, _, _)
QDigit(r, d, q) == IF BCmp(BMulSmall(d, q), r) > 0 THEN QDigit(r, d, q - 1) ELSE q

\* One step of the long division of n by d (d's top limb >= Base/2): bring
\* down limb i of n into the remainder st.r < d, find the quotient digit.
BLongDivStep(n, d, st, i) ==
    Bind(BTrim(<<n[i]>> \o st.r), LAMBDA r1 :
    Bind((Limb(r1, Len(d) + 1) * Base + Limb(r1, Len(d))) \div d[Len(d)], LAMBDA est :
    Bind(QDigit(r1, d, Min2(est, Base - 1)), LAMBDA q :
    Bind(BMulSmall(d, q), LAMBDA p :
        [q |-> <<q>> \o st.q, r |-> BSub(r1, p)]))))

\* <<floor(n / d), n - d * floor(n / d) scaled by a power of two>>, d > 0
BDivMod(n, d) ==
    Bind(LimbBits - IntBitLen(d[Len(d)]), LAMBDA sh :
    Bind(BShl(n, sh), LAMBDA n1 :
    Bind(BShl(d, sh), LAMBDA d1 :
    Bind(Iter(LAMBDA s, i : BLongDivStep(n1, d1, s, Len(n1) + 1 - i),
              1, Len(n1), [q |-> <<>>, r |-> <<>>]), LAMBDA st :
        <<BTrim(st.q), st.r>>))))

\* floor(sqrt(n)) by Newton's iteration x -> floor((x + floor(n / x)) / 2),
\* which decreases from a start x in (sqrt(n), 2 * sqrt(n)] until it reaches
\* floor(sqrt(n)).  The error squares at every step, so that LimbBits steps are
\* more than it takes for any n below 2^(8 * LimbBits).
BSqrtStep(n, st) ==
    IF st.done THEN st
    ELSE Bind(BDivMod(n, st.x), LAMBDA dm :
         Bind(BAdd(st.x, dm[1]), LAMBDA sum :
         Bind(BShr(sum, 1), LAMBDA y :
             IF BCmp(y, st.x) < 0 THEN [x |-> y, done |-> FALSE]
             ELSE [x |-> st.x, done |-> TRUE])))

BSqrt(n) ==
    IF n = <<>> THEN <<>>
    ELSE Iter(LAMBDA st, i : BSqrtStep(n, st), 1, LimbBits,
              [x |-> BShl(<<1>>, (BBitLen(n) + 1) \div 2), done |-> FALSE]).x

(***************************************************************************)
(* Numbers.  [k |-> "num", s, m, e] is (-1)^s * m * 2^e with m odd, or 0   *)
(* (m = <<>>, s = 0, e = 0), so that equal Numbers are equal records;      *)
(* k = "inf" is (-1)^s * Infinity and k = "nan" is NaN.                    *)
(***************************************************************************)
Zero == [k |-> "num", s |-> 0, m |-> <<>>, e |-> 0]
NaN == [k |-> "nan", s |-> 0, m |-> <<>>, e |-> 0]
Inf(s) == [k |-> "inf", s |-> s, m |-> <<>>, e |-> 0]

IsNaN(x) == x.k = "nan"
IsFinite(x) == x.k = "num"

\* the Number (-1)^s * m * 2^e, exactly: m of at most MantBits bits
Canon(s, m, e) ==
    IF m = <<>> THEN Zero
    ELSE Bind(BTrailingZeros(m), LAMBDA z :
             [k |-> "num", s |-> s, m |-> BShr(m, z), e |-> e + z])

\* x, or Infinity of its sign when x is 2^MaxExponent or more
Overflow(x) ==
    IF x.m # <<>> /\ x.e + BBitLen(x.m) > MaxExponent THEN Inf(x.s) ELSE x

\* (-1)^s * m * 2^e rounded to nearest, ties to even, to a multiple of 2^q,
\* where q leaves MantBits significant bits and is MinExponent at least
Round(s, m, e) ==
    IF m = <<>> THEN Zero
    ELSE Bind(Max2(BBitLen(m) - MantBits, MinExponent - e), LAMBDA n :
         IF n <= 0 THEN Overflow(Canon(s, m, e))
         ELSE Bind(BShr(m, n), LAMBDA q :
              Bind(BSub(m, BShl(q, n)), LAMBDA rest :
              Bind(BCmp(rest, BShl(<<1>>, n - 1)), LAMBDA c :
              Bind(IF c > 0 \/ (c = 0 /\ BIsOdd(q)) THEN BAdd(q, <<1>>) ELSE q, LAMBDA r :
                  Overflow(Canon(s, r, e + n)))))))

\* an integer literal or integer-valued Number, |n| < 2^31
FromInt(n) == IF n < 0 THEN Canon(1, BFromInt(-n), 0) ELSE Canon(0, BFromInt(n), 0)

FNeg(x) == IF IsNaN(x) \/ x = Zero THEN x ELSE [x EXCEPT !.s = 1 - x.s]
FAbs(x) == IF IsNaN(x) THEN x ELSE [x EXCEPT !.s = 0]

\* the sign of x - y for finite x, y: -1, 0, 1
FCmpFinite(x, y) ==
    IF x.s # y.s THEN (IF x = y THEN 0 ELSE IF x.s = 1 THEN -1 ELSE 1)
    ELSE IF x.m = <<>> \/ y.m = <<>>
         THEN (IF x = y THEN 0
               ELSE IF x.m = <<>> THEN (IF y.s = 1 THEN 1 ELSE -1)
               ELSE IF x.s = 1 THEN -1 ELSE 1)
    ELSE LET e == Min2(x.e, y.e)
             c == BCmp(BShl(x.m, x.e - e), BShl(y.m, y.e - e))
         IN  IF x.s = 1 THEN -c ELSE c

\* the order of x and y, neither NaN, for x < y, x > y, x <= y: -1, 0, 1
FCmp(x, y) ==
    IF IsFinite(x) /\ IsFinite(y) THEN FCmpFinite(x, y)
    ELSE IF x = y THEN 0
    ELSE IF x.k = "inf" THEN (IF x.s = 1 THEN -1 ELSE 1)
    ELSE IF y.s = 1 THEN 1 ELSE -1

FLt(x, y) == ~IsNaN(x) /\ ~IsNaN(y) /\ FCmp(x, y) < 0
FGt(x, y) == ~IsNaN(x) /\ ~IsNaN(y) /\ FCmp(x, y) > 0
FLe(x, y) == ~IsNaN(x) /\ ~IsNaN(y) /\ FCmp(x, y) <= 0
FEq(x, y) == ~IsNaN(x) /\ ~IsNaN(y) /\ x = y

\* x + y
FAdd(x, y) ==
    IF IsNaN(x) \/ IsNaN(y) THEN NaN
    ELSE IF ~IsFinite(x) THEN (IF ~IsFinite(y) /\ x.s # y.s THEN NaN ELSE x)
    ELSE IF ~IsFinite(y) THEN y
    ELSE IF x.m = <<>> THEN y
    ELSE IF y.m = <<>> THEN x
    ELSE Bind(Min2(x.e, y.e), LAMBDA e :
         Bind(BShl(x.m, x.e - e), LAMBDA ax :
         Bind(BShl(y.m, y.e - e), LAMBDA ay :
         Bind(BCmp(ax, ay), LAMBDA c :
         Bind(IF x.s = y.s THEN BAdd(ax, ay)
              ELSE IF c > 0 THEN BSub(ax, ay) ELSE BSub(ay, ax), LAMBDA d :
             Round(IF x.s = y.s \/ c > 0 THEN x.s ELSE y.s, d, e))))))

\* x - y
FSub(x, y) == FAdd(x, FNeg(y))

\* x * y
FMul(x, y) ==
    IF IsNaN(x) \/ IsNaN(y) THEN NaN
    ELSE IF ~IsFinite(x) \/ ~IsFinite(y)
         THEN (IF x = Zero \/ y = Zero THEN NaN ELSE Inf((x.s + y.s) % 2))
    ELSE Bind(BMul(x.m, y.m), LAMBDA p : Round((x.s + y.s) % 2, p, x.e + y.e))

\* x / y: the quotient of the mantissas to at least MantBits + 2 bits, the
\* remainder folded into a sticky last bit
FDiv(x, y) ==
    IF IsNaN(x) \/ IsNaN(y) THEN NaN
    ELSE IF ~IsFinite(x) THEN (IF ~IsFinite(y) THEN NaN ELSE Inf((x.s + y.s) % 2))
    ELSE IF ~IsFinite(y) THEN Zero
    ELSE IF y = Zero THEN (IF x = Zero THEN NaN ELSE Inf(x.s))
    ELSE IF x = Zero THEN Zero
    ELSE Bind(Max2(0, MantBits + 2 + BBitLen(y.m) - BBitLen(x.m)), LAMBDA n :
         Bind(BShl(x.m, n), LAMBDA num :
         Bind(BDivMod(num, y.m), LAMBDA dm :
         Bind(BShl(dm[1], 1), LAMBDA q :
         Bind(BAdd(q, IF dm[2] = <<>> THEN <<>> ELSE <<1>>), LAMBDA q2 :
             Round((x.s + y.s) % 2, q2, x.e - y.e - n - 1))))))

\* Math.sqrt(x): the integer square root of the mantissa scaled to at least
\* 2 * (MantBits + 2) bits and an even exponent, with a sticky last bit
FSqrt(x) ==
    IF IsNaN(x) \/ x = Zero THEN x
    ELSE IF x.s = 1 THEN NaN
    ELSE IF ~IsFinite(x) THEN x
    ELSE Bind(Max2(0, 2 * (MantBits + 2) - BBitLen(x.m)), LAMBDA n0 :
         Bind(n0 + ((x.e - n0) % 2), LAMBDA n :
         Bind(BShl(x.m, n), LAMBDA sq :
         Bind(BSqrt(sq), LAMBDA r :
         Bind(BMul(r, r), LAMBDA rr :
         Bind(BAdd(BShl(r, 1), IF rr = sq THEN <<>> ELSE <<1>>), LAMBDA r2 :
             Round(0, r2, ((x.e - n) \div 2) - 1)))))))

\* Math.floor(x) as an integer, for finite x >= 0 below 2^31
FFloor(x) ==
    IF x.e >= 0 THEN BToInt(BShl(x.m, x.e)) ELSE BToInt(BShr(x.m, -x.e))

\* the Number a decimal literal num/den denotes: the nearest to the quotient
Dec(num, den) == FDiv(FromInt(num), FromInt(den))

(***************************************************************************)
(* Literals of src/index.js                                                *)
(***************************************************************************)
IQR_FACTOR == Dec(15, 10)              \* 1.5
Z_THRESHOLD == FromInt(3)              \* threshold = 3.0
MODZ_THRESHOLD == Dec(35, 10)          \* threshold = 3.5
MODZ_CONSTANT == Dec(6745, 10000)      \* 0.6745
GRUBBS_CRITICAL == FromInt(2)          \* criticalValue = 2.0
ESD_CRITICAL == Dec(25, 10)            \* criticalValue = 2.5
ESD_FRACTION == Dec(1, 10)             \* columnData.length * 0.1
PEIRCE_THRESHOLD == FromInt(4)         \* 4.0

\* Q_TABLE: its keys in the order Object.keys gives them (integer keys,
\* ascending), and its values in thousandths
Q_KEYS == <<3, 4, 5, 6, 7, 8, 9, 10, 15, 20, 30>>
Q_THOUSANDTHS == <<970, 829, 710, 625, 568, 526, 493, 466, 338, 298, 239>>
Q_TABLE(key) == Dec(Q_THOUSANDTHS[CHOOSE i \in 1..Len(Q_KEYS) : Q_KEYS[i] = key], 1000)

(***************************************************************************)
(* Array helpers                                                           *)
(***************************************************************************)
\* the comparator (a, b) => a - b as the sort reads it: the sign of the
\* difference, and 0 when the difference is NaN
SortCompare(x, y) ==
    Bind(FSub(x, y), LAMBDA d :
        IF IsNaN(d) \/ d = Zero THEN 0 ELSE IF d.s = 1 THEN -1 ELSE 1)

\* the first run of the keys k, as the sort takes it: the longest ascending
\* run from the first element, or the longest strictly descending one
CountRun(k) ==
    Bind(SortCompare(k[2], k[1]) < 0, LAMBDA descending :
    Bind({i \in 3..Len(k) :
             Bind(SortCompare(k[i], k[i - 1]), LAMBDA order :
                 IF descending THEN order >= 0 ELSE order < 0)}, LAMBDA breaks :
        [descending |-> descending,
         length |-> IF breaks = {} THEN Len(k) ELSE SetMin(breaks) - 1]))

\* where the binary search puts the pivot among the sorted w[1..right]: the
\* number of elements that stay before it
RECURSIVE InsertionPoint(_, _, _, _, _)
InsertionPoint(k, w, pivot, left, right) ==
    IF left >= right THEN left
    ELSE Bind(left + ((right - left) \div 2), LAMBDA mid :
             IF SortCompare(k[pivot], k[w[mid + 1]]) < 0
             THEN InsertionPoint(k, w, pivot, left, mid)
             ELSE InsertionPoint(k, w, pivot, mid + 1, right))

\* w with its element after the first start ones moved to its place among them
BinaryInsert(k, w, start) ==
    Bind(InsertionPoint(k, w, w[start + 1], 0, start), LAMBDA left :
        SubSeq(w, 1, left) \o <<w[start + 1]>> \o SubSeq(w, left + 1, start)
            \o SubSeq(w, start + 2, Len(w)))

\* [...a].sort((x, y) => Key(x) - Key(y)), for fewer than 64 elements.  The
\* order the sort leaves is the engine's when a difference is NaN; this is
\* the sort of V8: the first run, reversed when descending, then a binary
\* insertion of each later element.  w holds the positions in a of the
\* elements in their current order.
SortBy(a, Key(_)) ==
    IF Len(a) < 2 THEN a
    ELSE Bind([i \in 1..Len(a) |-> Key(a[i])], LAMBDA k :
         Bind(CountRun(k), LAMBDA run :
         Bind([p \in 1..Len(a) |->
                  IF run.descending /\ p <= run.length THEN run.length + 1 - p ELSE p],
              LAMBDA w0 :
         Bind(Iter(LAMBDA w, start : BinaryInsert(k, w, start),
                   run.length, Len(a) - 1, w0), LAMBDA w :
             [p \in 1..Len(a) |-> a[w[p]]]))))

\* a.filter(Keep)
Filter(a, Keep(_)) ==
    Iter(LAMBDA acc, i : IF Keep(a[i]) THEN Append(acc, a[i]) ELSE acc, 1, Len(a), <<>>)

\* a.map(F)
Map(a, F(_)) == [i \in 1..Len(a) |-> F(a[i])]

\* a.reduce((x, y) => x + y, 0)
Sum(a) == Iter(LAMBDA acc, i : FAdd(acc, a[i]), 1, Len(a), Zero)

Identity(x) == x

\* Math.pow(x, 2): the product x * x, correctly rounded
Square(x) == FMul(x, x)

(***************************************************************************)
(* getStats                                                                *)
(***************************************************************************)
getStats(data) ==
    IF Len(data) = 0
    THEN [q1 |-> Zero, q3 |-> Zero, iqr |-> Zero, mean |-> Zero, stdDev |-> Zero,
          median |-> Zero, mad |-> Zero]
    ELSE \* Math.floor(n / 4), Math.floor(n / 2), Math.floor((n * 3) / 4): the
         \* quotients of these small integers are exact
         Bind(SortBy(data, Identity), LAMBDA sorted :
         Bind(Len(sorted), LAMBDA n :
         Bind(sorted[(n \div 4) + 1], LAMBDA q1 :
         Bind(sorted[(n \div 2) + 1], LAMBDA median :
         Bind(sorted[((n * 3) \div 4) + 1], LAMBDA q3 :
         Bind(FSub(q3, q1), LAMBDA iqr :
         Bind(FDiv(Sum(data), FromInt(n)), LAMBDA mean :
         Bind(Map(data, LAMBDA x : Square(FSub(x, mean))), LAMBDA squares :
         Bind(FSqrt(FDiv(Sum(squares), FromInt(n))), LAMBDA stdDev :
         Bind(Map(data, LAMBDA x : FAbs(FSub(x, median))), LAMBDA residuals :
         Bind(SortBy(residuals, Identity), LAMBDA sortedResiduals :
         Bind(sortedResiduals[(Len(sortedResiduals) \div 2) + 1], LAMBDA mad :
             [q1 |-> q1, q3 |-> q3, iqr |-> iqr, mean |-> mean, stdDev |-> stdDev,
              median |-> median, mad |-> mad]))))))))))))

Values(columnData) == [i \in 1..Len(columnData) |-> columnData[i].value]
Indices(ds) == [i \in 1..Len(ds) |-> ds[i].index]

(***************************************************************************)
(* The detection methods: a column is a sequence of [value, index]; each   *)
(* returns the array of flagged indices.                                   *)
(***************************************************************************)
\* the bounds with the signs of the two margins exchanged
IQRBounds_Inward(st) ==
    [lowerBound |-> FAdd(st.q1, FMul(IQR_FACTOR, st.iqr)),
     upperBound |-> FSub(st.q3, FMul(IQR_FACTOR, st.iqr))]

\* lowerBound and upperBound of findOutliersIQR
IQRBounds(st) ==
    [lowerBound |-> FSub(st.q1, FMul(IQR_FACTOR, st.iqr)),
     upperBound |-> FAdd(st.q3, FMul(IQR_FACTOR, st.iqr))]

findOutliersIQR(columnData) ==
    Bind(IQRBounds(getStats(Values(columnData))), LAMBDA b :
        Indices(Filter(columnData,
            LAMBDA d : FLt(d.value, b.lowerBound) \/ FGt(d.value, b.upperBound))))

ZScoreWith(columnData, threshold) ==
    Bind(getStats(Values(columnData)), LAMBDA st :
        IF st.stdDev = Zero THEN <<>>
        ELSE Indices(Filter(columnData,
                 LAMBDA d : FGt(FAbs(FDiv(FSub(d.value, st.mean), st.stdDev)), threshold))))

\* the same with a threshold of 5 standard deviations
findOutliersZScore_FiveSigma(columnData) == ZScoreWith(columnData, FromInt(5))

findOutliersZScore(columnData) == ZScoreWith(columnData, Z_THRESHOLD)

\* the modified z-score of every element of the column, in column order
Scores(data, st) ==
    [idx \in 1..Len(data) |->
        FAbs(FDiv(FMul(MODZ_CONSTANT, FSub(data[idx].value, st.median)), st.mad))]

\* the same without the guard on mad
ModifiedZScoreWith_NoGuard(columnData, threshold) ==
    Bind(getStats(Values(columnData)), LAMBDA st :
        Indices(Filter(columnData,
            LAMBDA d : FGt(FAbs(FDiv(FMul(MODZ_CONSTANT, FSub(d.value, st.median)),
                                     st.mad)), threshold))))

ModifiedZScoreWith(columnData, threshold) ==
    Bind(getStats(Values(columnData)), LAMBDA st :
        IF st.mad = Zero THEN <<>>
        ELSE Indices(Filter(columnData,
                 LAMBDA d : FGt(FAbs(FDiv(FMul(MODZ_CONSTANT, FSub(d.value, st.median)),
                                          st.mad)), threshold))))

findOutliersModifiedZScore(columnData) == ModifiedZScoreWith(columnData, MODZ_THRESHOLD)

\* the same keeping the last of several equal maxima
MaxDeviationStep_LastMax(data, st, acc, idx) ==
    Bind(FDiv(FAbs(FSub(data[idx].value, st.mean)), st.stdDev), LAMBDA dev :
        IF FGt(dev, acc.maxDev) \/ FEq(dev, acc.maxDev)
        THEN [maxDev |-> dev, outlierIndex |-> data[idx].index, idx |-> idx]
        ELSE acc)

\* the forEach of findOutliersGrubbs and findOutliersESD: the running maximum
\* of |value - mean| / stdDev, replaced only by a strictly larger deviation
MaxDeviationStep(data, st, acc, idx) ==
    Bind(FDiv(FAbs(FSub(data[idx].value, st.mean)), st.stdDev), LAMBDA dev :
        IF FGt(dev, acc.maxDev)
        THEN [maxDev |-> dev, outlierIndex |-> data[idx].index, idx |-> idx]
        ELSE acc)

\* dev of every element of the column, in column order
Deviations(data, st) ==
    [idx \in 1..Len(data) |-> FDiv(FAbs(FSub(data[idx].value, st.mean)), st.stdDev)]

MaxDeviation(data, st, init) ==
    Iter(LAMBDA acc, idx : MaxDeviationStep(data, st, acc, idx), 1, Len(data),
         [maxDev |-> init, outlierIndex |-> -1, idx |-> -1])

findOutliersGrubbs(columnData) ==
    IF Len(columnData) < 3 THEN <<>>
    ELSE Bind(getStats(Values(columnData)), LAMBDA st :
             IF st.stdDev = Zero THEN <<>>
             ELSE Bind(MaxDeviation(columnData, st, Zero), LAMBDA r :
                      IF FGt(r.maxDev, GRUBBS_CRITICAL) THEN <<r.outlierIndex>> ELSE <<>>))

\* columnData.splice(idx, 1), idx counted from 1
Splice(a, idx) == SubSeq(a, 1, idx - 1) \o SubSeq(a, idx + 1, Len(a))

\* the same with the mean and stdDev of the whole column at every pass
ESDStep_StaleStats(s) ==
    IF s.done THEN s
    ELSE IF Len(s.currentData) < 3 THEN [s EXCEPT !.done = TRUE]
    ELSE Bind(getStats(Values(s.currentData \o s.outliers)), LAMBDA st :
             IF st.stdDev = Zero THEN [s EXCEPT !.done = TRUE]
             ELSE Bind(MaxDeviation(s.currentData, st, FromInt(-1)), LAMBDA r :
                      IF FGt(r.maxDev, ESD_CRITICAL) /\ r.idx # -1
                      THEN [currentData |-> Splice(s.currentData, r.idx),
                            outliers |-> Append(s.outliers, s.currentData[r.idx]),
                            done |-> FALSE]
                      ELSE [s EXCEPT !.done = TRUE]))

\* one pass of the loop of findOutliersESD; done records a break
ESDStep(s) ==
    IF s.done THEN s
    ELSE IF Len(s.currentData) < 3 THEN [s EXCEPT !.done = TRUE]
    ELSE Bind(getStats(Values(s.currentData)), LAMBDA st :
             IF st.stdDev = Zero THEN [s EXCEPT !.done = TRUE]
             ELSE Bind(MaxDeviation(s.currentData, st, FromInt(-1)), LAMBDA r :
                      IF FGt(r.maxDev, ESD_CRITICAL) /\ r.idx # -1
                      THEN [currentData |-> Splice(s.currentData, r.idx),
                            outliers |-> Append(s.outliers, s.currentData[r.idx]),
                            done |-> FALSE]
                      ELSE [s EXCEPT !.done = TRUE]))

\* the same with half of the rows
ESDMaxOutliers_Half(columnData) == FFloor(FMul(FromInt(Len(columnData)), Dec(1, 2)))

ESDMaxOutliers(columnData) == FFloor(FMul(FromInt(Len(columnData)), ESD_FRACTION))

ESDLoop(columnData, maxOutliers) ==
    Iter(LAMBDA s, i : ESDStep(s), 1, maxOutliers,
         [currentData |-> columnData, outliers |-> <<>>, done |-> FALSE])

findOutliersESD(columnData) ==
    IF Len(columnData) < 5 THEN <<>>
    ELSE Indices(ESDLoop(columnData, ESDMaxOutliers(columnData)).outliers)

\* the same without reverse(): the first key that n reaches
DixonKey_FirstKey(n) ==
    LET ok == {i \in 1..Len(Q_KEYS) : n >= Q_KEYS[i]}
    IN  IF ok = {} THEN 3 ELSE Q_KEYS[SetMin(ok)]

\* Object.keys(Q_TABLE).reverse().find(key => n >= parseInt(key)) || 3
DixonKey(n) ==
    LET ok == {i \in 1..Len(Q_KEYS) : n >= Q_KEYS[i]}
    IN  IF ok = {} THEN 3 ELSE Q_KEYS[SetMax(ok)]

DixonValue(d) == d.value

findOutliersDixonQ(columnData) ==
    Bind(Len(columnData), LAMBDA n :
        IF n < 3 \/ n > 30 THEN <<>>
        ELSE Bind(SortBy(columnData, DixonValue), LAMBDA sortedData :
             Bind(Q_TABLE(DixonKey(n)), LAMBDA qCrit :
             Bind(FSub(sortedData[n].value, sortedData[1].value), LAMBDA range :
                 IF range = Zero THEN <<>>
                 ELSE Bind(FDiv(FSub(sortedData[2].value, sortedData[1].value), range),
                           LAMBDA qLow :
                      Bind(FDiv(FSub(sortedData[n].value, sortedData[n - 1].value), range),
                           LAMBDA qHigh :
                          (IF FGt(qLow, qCrit) THEN <<sortedData[1].index>> ELSE <<>>)
                          \o (IF FGt(qHigh, qCrit) THEN <<sortedData[n].index>> ELSE <<>>)))))))

\* the same with the threshold of the Z-score method
findOutliersPeirce_LowThreshold(columnData) == ModifiedZScoreWith(columnData, Z_THRESHOLD)

findOutliersPeirce(columnData) == ModifiedZScoreWith(columnData, PEIRCE_THRESHOLD)

(***************************************************************************)
(* The catalog of methods and the orchestrator                             *)
(***************************************************************************)
methods ==
    << [name |-> "Interquartile Range (IQR)",
        description |-> "Identifies outliers based on the spread of the middle 50% of the data."],
       [name |-> "Z-Score Method",
        description |-> "Flags data points that deviate significantly from the mean (typically > 3 standard deviations)."],
       [name |-> "Modified Z-Score Method",
        description |-> "A robust version of Z-score using median and median absolute deviation, less sensitive to existing outliers."],
       [name |-> "Grubbs' Test",
        description |-> "A statistical test to detect a single outlier in a normally distributed univariate dataset. (Simplified)"],
       [name |-> "Generalized ESD Test",
        description |-> "An iterative test to detect multiple outliers in a normally distributed dataset. (Simplified)"],
       [name |-> "Dixon's Q Test",
        description |-> "A test for single outliers in small datasets (n<30). (Simplified)"],
       [name |-> "Peirce's Criterion",
        description |-> "An early, rigorous method for outlier rejection. (Conceptual proxy used)"] >>

\* methods[m].fn(columnData)
MethodFn(m, columnData) ==
    CASE m = 1 -> findOutliersIQR(columnData)
      [] m = 2 -> findOutliersZScore(columnData)
      [] m = 3 -> findOutliersModifiedZScore(columnData)
      [] m = 4 -> findOutliersGrubbs(columnData)
      [] m = 5 -> findOutliersESD(columnData)
      [] m = 6 -> findOutliersDixonQ(columnData)
      [] m = 7 -> findOutliersPeirce(columnData)

\* String(n) of a non-negative integer, as its sequence of decimal digits
RECURSIVE DecimalDigits(_)
DecimalDigits(n) == IF n < 10 THEN <<n>> ELSE Append(DecimalDigits(n \div 10), n % 10)

\* a key of the row index alone
CompositeKey_IndexOnly(index, i) == DecimalDigits(index)

\* the template string `${index}-${i}`
CompositeKey(index, i) == DecimalDigits(index) \o <<"-">> \o DecimalDigits(i)

\* ds.data.map(dp => ({ value: dp.values[i], index: dp.index })), i from 0
ColumnData(ds, i) ==
    [p \in 1..Len(ds.data) |-> [value |-> ds.data[p].values[i + 1], index |-> ds.data[p].index]]

\* the elements of new Set(a), in insertion order
SetOf(a) ==
    Iter(LAMBDA acc, p : IF \E q \in 1..Len(acc) : acc[q] = a[p] THEN acc ELSE Append(acc, a[p]),
         1, Len(a), <<>>)

\* the body of outlierIndices.forEach; the Map is the sequence of its
\* entries in insertion order
RecordOutlier(ds, i, outliers, index) ==
    Bind({p \in 1..Len(ds.data) : ds.data[p].index = index}, LAMBDA found :
        IF found = {} THEN outliers
        ELSE Bind(ds.data[SetMin(found)], LAMBDA dataPoint :
             Bind(CompositeKey(dataPoint.index, i), LAMBDA key :
                 IF \E q \in 1..Len(outliers) : outliers[q].key = key THEN outliers
                 ELSE Append(outliers, [key |-> key,
                                        val |-> [index |-> dataPoint.index,
                                                 value |-> dataPoint.values[i + 1],
                                                 point |-> dataPoint.values,
                                                 columnIndex |-> i]]))))

\* one pass of the loop over the columns
AnalyseColumnOf(ds, m, outliers, i) ==
    Bind(SetOf(MethodFn(m, ColumnData(ds, i))), LAMBDA outlierIndices :
        Iter(LAMBDA acc, q : RecordOutlier(ds, i, acc, outlierIndices[q]),
             1, Len(outlierIndices), outliers))

RunMethod(ds, m) ==
    Bind(Iter(LAMBDA acc, c : AnalyseColumnOf(ds, m, acc, c - 1), 1, ds.dimensions, <<>>),
         LAMBDA outliers :
        [methodName |-> methods[m].name,
         description |-> methods[m].description,
         outliers |-> [q \in 1..Len(outliers) |-> outliers[q].val]])

\* the same without the results that have no outliers
runAllAnalyses_NonEmptyOnly(ds) ==
    Filter([m \in 1..Len(methods) |-> RunMethod(ds, m)], LAMBDA r : r.outliers # <<>>)

runAllAnalyses(ds) == [m \in 1..Len(methods) |-> RunMethod(ds, m)]

(***************************************************************************)
(* The parser.  A file is its sheet as sheet_to_json gives it: a header    *)
(* row and rows of cells, a cell standing for parseFloat(String(cell)),    *)
(* NaN for a cell that is not numeric.  A file without rows is json of     *)
(* length below two.                                                       *)
(***************************************************************************)
ERR_TOO_SHORT == "Dataset must have a header row and at least one data row."
ERR_NO_DATA == "No valid numeric data found in the file. Please ensure columns are numeric."
\* `Unsupported number of dimensions: ${dimensions}. Only 1D, 2D, and 3D data are supported.`
ERR_DIMENSIONS(dimensions) ==
    "Unsupported number of dimensions: " \o ToString(dimensions)
        \o ". Only 1D, 2D, and 3D data are supported."

ERR_UNKNOWN_PARSING == "An unknown error occurred during file parsing."

\* a message with which XLSX.read throws on data it cannot read
XLSX_MESSAGES == {"Unsupported file 0x50"}

\* how the reading of a file ends: the FileReader fires load and XLSX.read
\* returns the sheet, or it fires load and XLSX.read throws, or it fires error
ReadOutcomes ==
    {[kind |-> "load", message |-> ""], [kind |-> "error", message |-> ""]}
    \cup {[kind |-> "throw", message |-> m] : m \in XLSX_MESSAGES}

ParseRow(file, index) ==
    Bind(Filter(file.rows[index + 1], LAMBDA v : ~IsNaN(v)), LAMBDA values :
        IF Len(values) # Len(file.headers) THEN <<>>
        ELSE <<[index |-> index, values |-> values]>>)

\* what the promise of parseData(file) settles with when the reading ends as
\* read: ok is resolve, and else message is err.message of the rejection,
\* "" for the event of reader.onerror, which has none
parseData(file, read) ==
    IF read.kind = "error" THEN [ok |-> FALSE, message |-> ""]
    ELSE IF read.kind = "throw" THEN [ok |-> FALSE, message |-> read.message]
    ELSE
    Bind(Iter(LAMBDA acc, r : acc \o ParseRow(file, r - 1), 1, Len(file.rows), <<>>),
         LAMBDA dataPoints :
        IF 1 + Len(file.rows) < 2 THEN [ok |-> FALSE, message |-> ERR_TOO_SHORT]
        ELSE IF Len(dataPoints) = 0 THEN [ok |-> FALSE, message |-> ERR_NO_DATA]
        ELSE Bind(Len(dataPoints[1].values), LAMBDA dimensions :
                 IF dimensions = 0 \/ dimensions > 3
                 THEN [ok |-> FALSE, message |-> ERR_DIMENSIONS(dimensions)]
                 ELSE [ok |-> TRUE,
                       dataSet |-> [data |-> dataPoints, headers |-> file.headers,
                                    dimensions |-> dimensions]]))

(***************************************************************************)
(* State                                                                   *)
(***************************************************************************)
VARIABLES
    dataSet,            \* <<>> for null, else <<the parsed dataset>>
    analysisResults,    \* <<>> for null, else <<the array of method results>>
    isLoading,
    errorDisplay,       \* [hidden, text] of the error element
    findOutliersBtnDisabled,
    fileUploadInputDisabled,
    reading,            \* <<the file>> whose parse has not settled, else <<>>
    timer,              \* TRUE while the 50 ms analysis timer is pending
    columnData,         \* the column handed to the detection methods
    analysis,           \* <<>>, else <<what the methods returned for columnData>>
    esd                 \* the position of findOutliersESD in its loop

vars == <<dataSet, analysisResults, isLoading, errorDisplay, findOutliersBtnDisabled,
          fileUploadInputDisabled, reading, timer, columnData, analysis, esd>>

uiVars == <<dataSet, analysisResults, isLoading, errorDisplay, findOutliersBtnDisabled,
            fileUploadInputDisabled, reading, timer>>

columnVars == <<columnData, analysis, esd>>

(***************************************************************************)
(* Bounds of the files                                                     *)
(***************************************************************************)
MaxRows == 4            \* data rows of a file with one column; one less per further column
MaxHeaders == 4

HeaderRow(h) == [c \in 1..h |-> "h"]

\* the rows a file of h columns is made of; NaN is a cell that is not a number
RowsOf(h) ==
    CASE h = 0 -> {<<>>, <<NaN>>}
      [] h = 1 -> {<<FromInt(9)>>, <<NaN>>}
      [] h = 2 -> {<<FromInt(0), FromInt(0)>>, <<FromInt(1), FromInt(1)>>,
                   <<FromInt(9), Dec(13, 2)>>, <<NaN, FromInt(1)>>}
      [] h = 3 -> {<<FromInt(0), FromInt(1), FromInt(9)>>, <<FromInt(1), NaN, FromInt(1)>>}
      [] OTHER -> {[c \in 1..h |-> FromInt(1)]}

RowLimit(h) == IF h = 0 THEN 1 ELSE Max2(1, MaxRows + 1 - h)

Files ==
    UNION {{[headers |-> HeaderRow(h), rows |-> r] :
                r \in UNION {[1..n -> RowsOf(h)] : n \in 0..RowLimit(h)}} : h \in 0..MaxHeaders}

(***************************************************************************)
(* Bounds of the columns                                                   *)
(***************************************************************************)
MaxSmallLen == 4        \* every column up to this length is tried
MaxColumnLen == 12      \* the longest column of the structured families

SmallValues == {FromInt(0), Dec(1, 10), FromInt(1), Dec(13, 2)}

\* values[i] at row index i - 1
AsColumn(values) == [i \in 1..Len(values) |-> [value |-> values[i], index |-> i - 1]]

Repeat(v, n) == [i \in 1..n |-> v]

\* every column of the small values
SmallColumns == UNION {[1..n -> SmallValues] : n \in 0..MaxSmallLen}

\* a run of ones, with or without a low first value and a high last value
OutlierColumns ==
    {lo \o Repeat(FromInt(1), n) \o hi :
        lo \in {<<>>, <<FromInt(0)>>, <<FromInt(9)>>},
        hi \in {<<>>, <<FromInt(2)>>, <<FromInt(9)>>},
        n \in 1..(MaxColumnLen - 2)}

\* columns of one repeated value
ConstantColumns ==
    {Repeat(v, n) : v \in SmallValues \cup {Inf(0)}, n \in 1..MaxColumnLen}

MaxDixonLen == 31       \* the longest column handed to Dixon's Q test
DixonLow == FromInt(0)
DixonHigh == FromInt(100)
DixonMids == {0, 25, 30, 48, 50, 55, 60, 70, 80, 90, 98, 100}

\* a, turned left by r places
Rotate(a, r) == [i \in 1..Len(a) |-> a[((i - 1 + r) % Len(a)) + 1]]

\* a lowest and a highest value around a run of one middle value, in the
\* order low, middle, high and turned by one place; the short columns; the
\* columns of one repeated value
DixonColumns ==
    {Rotate(<<DixonLow>> \o Repeat(FromInt(mid), n - 2) \o <<DixonHigh>>, r) :
        mid \in DixonMids, n \in 3..MaxDixonLen, r \in 0..1}
    \cup UNION {[1..n -> {DixonLow, DixonHigh}] : n \in 0..2}
    \cup {Repeat(v, n) : v \in {DixonLow, Dec(1, 10), Inf(0)}, n \in 3..MaxDixonLen}

MaxESDLen == 21         \* the longest column handed to the ESD test
MaxESDOutliers == 2     \* the most high values put into such a column
ESDHigh == FromInt(10)
ESDFar == FromInt(100)

\* n values 0, 1, 0, 1, ... or n values 0
ESDBase(n, alternating) ==
    [i \in 1..n |-> IF alternating /\ i % 2 = 0 THEN FromInt(1) ELSE FromInt(0)]

\* k high values, the last of them far higher when far
ESDHighs(k, far) == [i \in 1..k |-> IF far /\ i = k THEN ESDFar ELSE ESDHigh]

\* up to MaxESDOutliers high values before or after such a base
ESDColumns ==
    {IF atEnd THEN ESDBase(n - k, alternating) \o ESDHighs(k, far)
              ELSE ESDHighs(k, far) \o ESDBase(n - k, alternating) :
        n \in MaxESDOutliers..MaxESDLen, k \in 0..MaxESDOutliers,
        alternating \in BOOLEAN, atEnd \in BOOLEAN, far \in BOOLEAN}

InjectBaseLen == 25     \* the values of a column before one more is injected
InjectLow == FromInt(0)
InjectHigh == FromInt(10)
Injected == FromInt(1000)
InjectLevels == {InjectLow, FromInt(5), InjectHigh}
InjectSplits == {8, 12, 13}
InjectStrides == {7, 10, 33}

\* values spread over [0, 10] in tenths, and values at two levels
InjectBases ==
    {[i \in 1..InjectBaseLen |-> Dec((i * r) % 101, 10)] :
        r \in InjectStrides}
    \cup {Repeat(a, k) \o Repeat(b, InjectBaseLen - k) :
            a \in InjectLevels, b \in InjectLevels, k \in InjectSplits}

\* one value of 1000 injected first, in the middle or last
InjectColumns ==
    {SubSeq(base, 1, p) \o <<Injected>> \o SubSeq(base, p + 1, InjectBaseLen) :
        base \in InjectBases, p \in {0, InjectBaseLen \div 2, InjectBaseLen}}

\* a run of zeros and one last value of 7: at n rows that value is sqrt(n - 1)
\* population standard deviations from the mean
LoneValue == FromInt(7)
LoneColumns == {Repeat(FromInt(0), n - 1) \o <<LoneValue>> : n \in 2..MaxColumnLen}

\* values at the ends of the range of a Number: 2^-600, whose square is below
\* the least positive Number, and 2^1023, whose double is Infinity
TinyValue == [k |-> "num", s |-> 0, m |-> <<1>>, e |-> -600]
HugeValue == [k |-> "num", s |-> 0, m |-> <<1>>, e |-> 1023]

\* zeros and one tiny value; huge values of one or both signs; finite values
\* next to Infinity, whose differences in the sort are NaN
ExtremeColumns ==
    {Repeat(FromInt(0), n - 1) \o <<TinyValue>> : n \in 2..MaxColumnLen}
    \cup {Repeat(HugeValue, n) : n \in 1..MaxSmallLen}
    \cup {<<FNeg(HugeValue), FromInt(0), HugeValue>>,
          <<FromInt(1), Inf(0)>>,
          <<Inf(0), FromInt(1), Inf(0)>>,
          <<FromInt(14), Inf(0), Inf(0), FromInt(6)>>,
          <<Inf(1), FromInt(1), Inf(0), FromInt(2)>>}

Columns ==
    SmallColumns \cup OutlierColumns \cup ConstantColumns \cup LoneColumns
        \cup ExtremeColumns

(***************************************************************************)
(* The page                                                                *)
(***************************************************************************)
NoColumn == columnData = <<>> /\ analysis = <<>> /\ esd = <<>>

Init ==
    /\ dataSet = <<>>
    /\ analysisResults = <<>>
    /\ isLoading = FALSE
    /\ errorDisplay = [hidden |-> TRUE, text |-> ""]
    /\ findOutliersBtnDisabled = TRUE
    /\ fileUploadInputDisabled = FALSE
    /\ reading = <<>>
    /\ timer = FALSE
    /\ NoColumn

\* updateUI, for the state the handler leaves
updateUI ==
    /\ findOutliersBtnDisabled' = (isLoading' \/ dataSet' = <<>>)
    /\ fileUploadInputDisabled' = isLoading'

showError(message) == errorDisplay' = [hidden |-> FALSE, text |-> message]

\* handleFileSelect up to its await
handleFileSelect(file) ==
    /\ isLoading' = TRUE
    /\ errorDisplay' = [errorDisplay EXCEPT !.hidden = TRUE]
    /\ analysisResults' = <<>>
    /\ dataSet' = <<>>
    /\ updateUI
    /\ reading' = <<file>>
    /\ UNCHANGED <<timer, columnVars>>

\* the change listener of the file input; a disabled input delivers no event
InputChange == \E file \in Files : ~fileUploadInputDisabled /\ handleFileSelect(file)

\* the same without the test of isLoading
Drop_WhileLoading == \E file \in Files : handleFileSelect(file)

\* the drop listener of the upload area
Drop == \E file \in Files : ~isLoading /\ handleFileSelect(file)

\* handleFileSelect after its await: the promise of parseData settles, one
\* way or another
ParseSettles ==
    /\ reading # <<>>
    /\ \E read \in ReadOutcomes :
          LET r == parseData(reading[1], read)
          IN  IF r.ok THEN dataSet' = <<r.dataSet>> /\ UNCHANGED errorDisplay
              ELSE /\ showError(IF r.message # "" THEN r.message ELSE ERR_UNKNOWN_PARSING)
                   /\ dataSet' = <<>>
    /\ isLoading' = FALSE
    /\ updateUI
    /\ reading' = <<>>
    /\ UNCHANGED <<analysisResults, timer, columnVars>>

\* the click listener of the button; a disabled button delivers no event
handleFindOutliers ==
    /\ ~findOutliersBtnDisabled
    /\ IF dataSet = <<>>
       THEN /\ showError("Please upload a data set first.")
            /\ UNCHANGED <<dataSet, analysisResults, isLoading, findOutliersBtnDisabled,
                           fileUploadInputDisabled, reading, timer, columnVars>>
       ELSE /\ isLoading' = TRUE
            /\ errorDisplay' = [errorDisplay EXCEPT !.hidden = TRUE]
            /\ analysisResults' = <<>>
            /\ UNCHANGED dataSet
            /\ updateUI
            /\ timer' = TRUE
            /\ UNCHANGED <<reading, columnVars>>

\* the callback of setTimeout(..., 50)
TimerFires ==
    /\ timer
    /\ dataSet # <<>>
    /\ analysisResults' = <<runAllAnalyses(dataSet[1])>>
    /\ isLoading' = FALSE
    /\ UNCHANGED dataSet
    /\ updateUI
    /\ timer' = FALSE
    /\ UNCHANGED <<errorDisplay, reading, columnVars>>

Next == InputChange \/ Drop \/ ParseSettles \/ handleFindOutliers \/ TimerFires

Spec == Init /\ [][Next]_vars

\* the timer callback can run: this is ENABLED <<TimerFires>>_vars
TimerEnabled == timer /\ dataSet # <<>>

\* weak fairness of TimerFires, WF_vars(TimerFires), with its enabling
\* condition written out: a timer that was set fires
TimerFairness == []<>(~TimerEnabled) \/ []<><<TimerFires>>_vars

\* the FileReader always ends in load or error, which settles the promise of
\* parseData, and a timer that was set always fires
SpecFair == Spec /\ WF_vars(ParseSettles) /\ TimerFairness

(***************************************************************************)
(* The detection methods on one column                                     *)
(***************************************************************************)
PageIdle ==
    /\ dataSet = <<>>
    /\ analysisResults = <<>>
    /\ isLoading = FALSE
    /\ errorDisplay = [hidden |-> TRUE, text |-> ""]
    /\ findOutliersBtnDisabled = TRUE
    /\ fileUploadInputDisabled = FALSE
    /\ reading = <<>>
    /\ timer = FALSE

InitColumn ==
    /\ PageIdle
    /\ columnData \in {AsColumn(c) : c \in Columns}
    /\ analysis = <<>>
    /\ esd = <<>>

\* getStats and the seven methods of the catalog, applied to the column
AnalyseColumn ==
    /\ analysis = <<>>
    /\ analysis' =
          <<Bind(getStats(Values(columnData)), LAMBDA st :
                [stats |-> st,
                 bounds |-> IQRBounds(st),
                 deviations |-> Deviations(columnData, st),
                 scores |-> Scores(columnData, st),
                 flagged |-> [m \in 1..Len(methods) |-> MethodFn(m, columnData)]])>>
    /\ UNCHANGED <<uiVars, columnData, esd>>

NextColumn == AnalyseColumn

SpecColumn == InitColumn /\ [][NextColumn]_vars

(***************************************************************************)
(* Dixon's Q test on one column                                            *)
(***************************************************************************)
InitDixon ==
    /\ PageIdle
    /\ columnData \in {AsColumn(c) : c \in DixonColumns}
    /\ analysis = <<>>
    /\ esd = <<>>

CallDixonQ ==
    /\ analysis = <<>>
    /\ analysis' = <<[dixon |-> findOutliersDixonQ(columnData)]>>
    /\ UNCHANGED <<uiVars, columnData, esd>>

NextDixon == CallDixonQ

SpecDixon == InitDixon /\ [][NextDixon]_vars

(***************************************************************************)
(* The methods on one column with an injected value                        *)
(***************************************************************************)
InitInject ==
    /\ PageIdle
    /\ columnData \in {AsColumn(c) : c \in InjectColumns}
    /\ analysis = <<>>
    /\ esd = <<>>

SpecInject == InitInject /\ [][NextColumn]_vars

(***************************************************************************)
(* findOutliersESD on one column, one pass of its loop at a time           *)
(***************************************************************************)
InitESD ==
    /\ PageIdle
    /\ columnData \in {AsColumn(c) : c \in ESDColumns}
    /\ analysis = <<>>
    /\ esd = <<>>

\* the call: the default of maxOutliers, the guard on the length
ESDCall ==
    /\ esd = <<>>
    /\ esd' = <<[pc |-> IF Len(columnData) < 5 THEN "return" ELSE "loop",
                 i |-> 0,
                 maxOutliers |-> ESDMaxOutliers(columnData),
                 currentData |-> columnData,
                 outliers |-> <<>>,
                 result |-> <<>>]>>
    /\ UNCHANGED <<uiVars, columnData, analysis>>

\* one pass of the loop, ending in i++ or in a break
ESDIterate ==
    /\ esd # <<>>
    /\ esd[1].pc = "loop"
    /\ esd[1].i < esd[1].maxOutliers
    /\ esd' = <<Bind(ESDStep([currentData |-> esd[1].currentData,
                              outliers |-> esd[1].outliers, done |-> FALSE]),
                     LAMBDA s :
                         IF s.done THEN [esd[1] EXCEPT !.pc = "return"]
                         ELSE [esd[1] EXCEPT !.i = @ + 1,
                                             !.currentData = s.currentData,
                                             !.outliers = s.outliers])>>
    /\ UNCHANGED <<uiVars, columnData, analysis>>

\* the end of the loop and the return
ESDReturn ==
    /\ esd # <<>>
    /\ \/ esd[1].pc = "return"
       \/ esd[1].pc = "loop" /\ esd[1].i >= esd[1].maxOutliers
    /\ esd' = <<[esd[1] EXCEPT !.pc = "returned",
                               !.result = IF Len(columnData) < 5 THEN <<>>
                                          ELSE Indices(esd[1].outliers)]>>
    /\ UNCHANGED <<uiVars, columnData, analysis>>

NextESD == ESDCall \/ ESDIterate \/ ESDReturn

SpecESD == InitESD /\ [][NextESD]_vars

\* the indices of a flagged list, as a set
IndexSet(flagged) == {flagged[i] : i \in 1..Len(flagged)}

(***************************************************************************)
(* Properties of the orchestrator                                          *)
(***************************************************************************)
HasResults == analysisResults # <<>>
Results == analysisResults[1]

\* the row indices that method m flags in column i of ds
FlaggedIn(ds, m, i) == IndexSet(MethodFn(m, ColumnData(ds, i)))

\* the records of recs for row index and column i
RecordsOf(recs, index, i) ==
    {q \in 1..Len(recs) : recs[q].index = index /\ recs[q].columnIndex = i}

\* recs has one record for every flagged pair, and nothing else
RecordsMatch(ds, m, recs) ==
    /\ \A i \in 0..(ds.dimensions - 1) :
          \A index \in FlaggedIn(ds, m, i) : Cardinality(RecordsOf(recs, index, i)) = 1
    /\ \A q \in 1..Len(recs) :
          /\ recs[q].columnIndex \in 0..(ds.dimensions - 1)
          /\ recs[q].index \in FlaggedIn(ds, m, recs[q].columnIndex)
          /\ Cardinality(RecordsOf(recs, recs[q].index, recs[q].columnIndex)) = 1
          /\ \E p \in 1..Len(ds.data) :
                /\ ds.data[p].index = recs[q].index
                /\ recs[q].point = ds.data[p].values
                /\ recs[q].value = ds.data[p].values[recs[q].columnIndex + 1]

\* C3: the outliers of every method after runAllAnalyses are one record for
\* each pair of a row index and a column in which the method flags that
\* index, with the value of the row in that column and the whole row as the
\* point, and no other record.
C3_OneRecordPerFlaggedPair ==
    [][(analysisResults' # analysisResults /\ analysisResults' # <<>>) =>
          \A m \in 1..Len(analysisResults'[1]) :
              RecordsMatch(dataSet[1], m, analysisResults'[1][m].outliers)]_vars

\* some method has two records for one row, one for each of two columns, and
\* some method has a record for column 0 of a row and none for its column 1
C3_Witness ==
    /\ HasResults
    /\ \E m \in 1..Len(Results) :
          \E q, r \in 1..Len(Results[m].outliers) :
              /\ Results[m].outliers[q].index = Results[m].outliers[r].index
              /\ Results[m].outliers[q].columnIndex = 0
              /\ Results[m].outliers[r].columnIndex = 1
    /\ dataSet # <<>>
    /\ dataSet[1].dimensions = 2
    /\ \E m \in 1..Len(Results) :
          /\ Len(Results[m].outliers) = 1
          /\ Results[m].outliers[1].columnIndex = 0

MethodNames ==
    << "Interquartile Range (IQR)", "Z-Score Method", "Modified Z-Score Method",
       "Grubbs' Test", "Generalized ESD Test", "Dixon's Q Test", "Peirce's Criterion" >>

\* C4: runAllAnalyses returns 7 results, for IQR, Z-Score, Modified Z-Score,
\* Grubbs, ESD, Dixon's Q and Peirce in this order, whatever the data.
C4_SevenResultsInCatalogOrder ==
    HasResults =>
        /\ Len(Results) = 7
        /\ \A m \in 1..7 : Results[m].methodName = MethodNames[m]

\* a data set of three columns in which no method flags anything
C4_Witness ==
    /\ HasResults
    /\ dataSet # <<>>
    /\ dataSet[1].dimensions = 3
    /\ \A m \in 1..Len(Results) : Results[m].outliers = <<>>

(***************************************************************************)
(* Properties of the session                                               *)
(***************************************************************************)
ParsePending == reading # <<>>
TimerPending == timer

\* a parse and an analysis are never pending together, and isLoading is set
\* while either is
OneTaskAtATime ==
    /\ ~(ParsePending /\ TimerPending)
    /\ (ParsePending \/ TimerPending) => isLoading

\* the results on the page are those of the data set on the page
ResultsOfCurrentDataSet ==
    HasResults =>
        /\ dataSet # <<>>
        /\ Results = runAllAnalyses(dataSet[1])

\* a step in which a file selection or an analysis begins
SelectionBegins == reading' # <<>> /\ reading' # reading
AnalysisBegins == timer' /\ ~timer

\* no selection begins while a parse or a timer is pending, and no analysis
\* begins while a parse is pending or without a data set
NothingBeginsWhilePending ==
    /\ SelectionBegins => ~TimerPending /\ ~ParsePending
    /\ AnalysisBegins => ~ParsePending /\ dataSet # <<>>

\* C13: under every interleaving of file selections, parse completions and
\* failures, clicks and timer callbacks, no file selection begins while an
\* analysis timer is pending and no analysis begins while a parse is pending;
\* whenever analysisResults is not null, dataSet is not null and the results
\* are those of that dataSet; and isLoading returns to false after every
\* parse or analysis that started.
C13_SessionStaysConsistent ==
    /\ [](OneTaskAtATime /\ ResultsOfCurrentDataSet)
    /\ [][NothingBeginsWhilePending]_vars
    /\ (isLoading ~> ~isLoading)

\* results with a flagged point on the page, and nothing pending
C13_Witness ==
    /\ HasResults
    /\ ~isLoading
    /\ ~ParsePending
    /\ ~TimerPending
    /\ ~findOutliersBtnDisabled
    /\ \E m \in 1..Len(Results) : Results[m].outliers # <<>>

(***************************************************************************)
(* Properties of the methods on one column                                 *)
(***************************************************************************)
Analysed == analysis # <<>>
Result == analysis[1]
ColumnValues == Values(columnData)
AllFinite == \A i \in 1..Len(columnData) : IsFinite(columnData[i].value)
AllIdentical == \A i \in 1..Len(columnData) : columnData[i].value = columnData[1].value

\* C1, as amended: the Z-score method returns an empty result whenever the
\* population stdDev of the column is 0, and the Modified Z-score method
\* returns an empty result whenever the mad of the column is 0; either may
\* also be empty when the statistic is not zero.
C1_ZeroStatisticGivesEmpty ==
    Analysed =>
        /\ Result.stats.stdDev = Zero => Result.flagged[2] = <<>>
        /\ Result.stats.mad = Zero => Result.flagged[3] = <<>>

\* a column with mad = 0 and a value away from the median, and nothing flagged
C1_Witness ==
    /\ Analysed
    /\ Result.stats.mad = Zero
    /\ Result.stats.stdDev # Zero
    /\ \E i \in 1..Len(columnData) : columnData[i].value # Result.stats.median
    /\ Result.flagged[3] = <<>>

\* C1 as stated: each result is empty exactly when its statistic is zero
C1_EmptyExactlyWhenZero ==
    Analysed =>
        /\ Result.flagged[2] = <<>> <=> Result.stats.stdDev = Zero
        /\ Result.flagged[3] = <<>> <=> Result.stats.mad = Zero

\* C5 as stated, for finite values: a column of n >= 1 identical values has
\* stdDev = 0, iqr = 0 and mad = 0, and each of the seven methods returns an
\* empty result.
C5_IdenticalValuesAreDegenerate ==
    (Analysed /\ Len(columnData) >= 1 /\ AllIdentical /\ AllFinite) =>
        /\ Result.stats.stdDev = Zero
        /\ Result.stats.iqr = Zero
        /\ Result.stats.mad = Zero
        /\ \A m \in 1..Len(methods) : Result.flagged[m] = <<>>

\* v is the element of rank k (from 0) of the sample in ascending order
HasRank(v, k) ==
    /\ Cardinality({i \in 1..Len(columnData) : FLt(columnData[i].value, v)}) <= k
    /\ k < Cardinality({i \in 1..Len(columnData) : FLe(columnData[i].value, v)})

BoundsOrdered ==
    /\ FLe(Result.bounds.lowerBound, Result.stats.q1)
    /\ FLe(Result.stats.q1, Result.stats.q3)
    /\ FLe(Result.stats.q3, Result.bounds.upperBound)

QuartilesByRank ==
    IF Len(columnData) = 0
    THEN Result.stats.q1 = Zero /\ Result.stats.q3 = Zero
    ELSE /\ HasRank(Result.stats.q1, Len(columnData) \div 4)
         /\ HasRank(Result.stats.q3, (3 * Len(columnData)) \div 4)

\* C8, as amended: for every sample of finite values (the empty sample and
\* samples with iqr = 0 included), q1 and q3 are the elements of rank
\* floor(n/4) and floor(3n/4) of the sorted sample and
\* lowerBound <= q1 <= q3 <= upperBound.
C8_BoundsOrderedForFiniteValues ==
    (Analysed /\ AllFinite) => (BoundsOrdered /\ QuartilesByRank)

\* a sample with distinct quartiles and both bounds strictly outside them
C8_Witness ==
    /\ Analysed
    /\ AllFinite
    /\ FLt(Result.bounds.lowerBound, Result.stats.q1)
    /\ FLt(Result.stats.q1, Result.stats.q3)
    /\ FLt(Result.stats.q3, Result.bounds.upperBound)

\* C8 as stated: lowerBound <= q1 <= q3 <= upperBound for every sample
C8_BoundsOrderedForEverySample == Analysed => BoundsOrdered

\* the positions whose deviation no other deviation exceeds, with all earlier
\* deviations strictly below
IsFirstMaximum(i) ==
    /\ \A j \in 1..Len(columnData) : ~FGt(Result.deviations[j], Result.deviations[i])
    /\ \A j \in 1..(i - 1) : FLt(Result.deviations[j], Result.deviations[i])

\* C9: Grubbs' test returns at most one index; nothing when n < 3 or
\* stdDev = 0; otherwise, when some |value - mean| / stdDev exceeds 2.0, the
\* index of the first element of the column whose deviation is the maximum,
\* and nothing when none exceeds 2.0, whatever n is.
C9_GrubbsFlagsFirstMaximum ==
    Analysed =>
        /\ Len(Result.flagged[4]) <= 1
        /\ (Len(columnData) < 3 \/ Result.stats.stdDev = Zero) => Result.flagged[4] = <<>>
        /\ (Len(columnData) >= 3 /\ Result.stats.stdDev # Zero) =>
              IF \E i \in 1..Len(columnData) : FGt(Result.deviations[i], FromInt(2))
              THEN \E i \in 1..Len(columnData) :
                      /\ IsFirstMaximum(i)
                      /\ Result.flagged[4] = <<columnData[i].index>>
              ELSE Result.flagged[4] = <<>>

\* a flagged element with a later element of the same deviation
C9_Witness ==
    /\ Analysed
    /\ Result.flagged[4] # <<>>
    /\ \E i, j \in 1..Len(columnData) :
          /\ i < j
          /\ columnData[i].index = Result.flagged[4][1]
          /\ Result.deviations[j] = Result.deviations[i]

\* C10: Peirce's criterion returns what the Modified Z-score rule returns with
\* threshold 4.0: nothing when mad = 0, else the indices, in column order, of
\* the elements whose modified z-score exceeds 4.0; and every index it flags
\* is flagged by the Modified Z-score method (threshold 3.5).
C10_PeirceIsModifiedZAtFour ==
    Analysed =>
        /\ Result.stats.mad = Zero => Result.flagged[7] = <<>>
        /\ Result.stats.mad # Zero =>
              Result.flagged[7] =
                  Indices(Filter(columnData,
                      LAMBDA d : FGt(Result.scores[d.index + 1], FromInt(4))))
        /\ IndexSet(Result.flagged[7]) \subseteq IndexSet(Result.flagged[3])

\* a column where Peirce's criterion flags an element
C10_Witness ==
    /\ Analysed
    /\ Result.flagged[7] # <<>>
    /\ Result.flagged[7] = Result.flagged[3]
    /\ Len(Result.flagged[7]) < Len(columnData)

\* C11 as stated: the Z-score method (threshold 3.0) returns an empty result
\* for every column of at most 10 rows, no point being further than
\* sqrt(n - 1) population standard deviations from the mean.
C11_ZScoreEmptyUpToTenRows ==
    (Analysed /\ Len(columnData) <= 10) => Result.flagged[2] = <<>>

(***************************************************************************)
(* Properties of the methods on a column with an injected value            *)
(***************************************************************************)
InjectedIndex ==
    columnData[CHOOSE i \in 1..Len(columnData) : columnData[i].value = Injected].index

BaseInRange ==
    \A i \in 1..Len(columnData) :
        \/ columnData[i].value = Injected
        \/ /\ FLe(InjectLow, columnData[i].value)
           /\ FLe(columnData[i].value, InjectHigh)

FlagsInjected(m) == InjectedIndex \in IndexSet(Result.flagged[m])

\* IQR, Z-Score, Grubbs, ESD and Dixon's Q in the catalog
AlwaysFlagging == {1, 2, 4, 5, 6}

\* C2 as amended: on a column of 25 values of [0, 10] and one value of 1000,
\* IQR, Z-score, ESD, Grubbs and Dixon's Q (bracket 20, critical value 0.298)
\* flag the index of the injected row, and Modified Z-score flags it exactly
\* when the mad of the column is not zero.
C2_InjectedFlaggedUnlessMadZero ==
    (Analysed /\ BaseInRange) =>
        /\ \A m \in AlwaysFlagging : FlagsInjected(m)
        /\ FlagsInjected(3) <=> Result.stats.mad # Zero
        /\ DixonKey(Len(columnData)) = 20
        /\ Q_TABLE(20) = Dec(298, 1000)

\* values spread over [0, 10]: the six methods flag the injected row
C2_Witness ==
    /\ Analysed
    /\ BaseInRange
    /\ Result.stats.mad # Zero
    /\ Result.stats.iqr # Zero
    /\ \A m \in 1..6 : FlagsInjected(m)

\* C2 as stated: each of the six methods flags the index of the injected row
C2_InjectedFlaggedByAllSix ==
    (Analysed /\ BaseInRange) => \A m \in 1..6 : FlagsInjected(m)

(***************************************************************************)
(* Properties of Dixon's Q test                                            *)
(***************************************************************************)
Positions == 1..Len(columnData)
ValueAt(i) == columnData[i].value

\* the positions of a least and of a greatest value, and of a least and a
\* greatest among the others
MinPos == CHOOSE i \in Positions : \A j \in Positions : ~FLt(ValueAt(j), ValueAt(i))
MaxPos == CHOOSE i \in Positions : \A j \in Positions : ~FGt(ValueAt(j), ValueAt(i))
NextMinPos ==
    CHOOSE i \in Positions \ {MinPos} :
        \A j \in Positions \ {MinPos} : ~FLt(ValueAt(j), ValueAt(i))
NextMaxPos ==
    CHOOSE i \in Positions \ {MaxPos} :
        \A j \in Positions \ {MaxPos} : ~FGt(ValueAt(j), ValueAt(i))

DixonRange == FSub(ValueAt(MaxPos), ValueAt(MinPos))
DixonQLow == FDiv(FSub(ValueAt(NextMinPos), ValueAt(MinPos)), DixonRange)
DixonQHigh == FDiv(FSub(ValueAt(MaxPos), ValueAt(NextMaxPos)), DixonRange)

\* the critical value of the largest key of {3,...,10,15,20,30} that is <= n
DixonBracket(n) ==
    IF n >= 30 THEN 30 ELSE IF n >= 20 THEN 20 ELSE IF n >= 15 THEN 15
    ELSE IF n >= 10 THEN 10 ELSE n
DixonQCrit == Q_TABLE(DixonBracket(Len(columnData)))

\* C7: Dixon's Q test returns nothing for n < 3, for n > 30 and for a range
\* of 0; for 3 <= n <= 30 and a range above 0 it returns the index of the
\* minimum exactly when qLow exceeds the critical value of the largest key
\* <= n, then the index of the maximum exactly when qHigh exceeds it, and
\* nothing else.
C7_DixonFlagsByBracket ==
    Analysed =>
        IF Len(columnData) < 3 \/ Len(columnData) > 30 THEN Result.dixon = <<>>
        ELSE IF DixonRange = Zero THEN Result.dixon = <<>>
        ELSE FGt(DixonRange, Zero) =>
                Result.dixon =
                    (IF FGt(DixonQLow, DixonQCrit) THEN <<columnData[MinPos].index>> ELSE <<>>)
                    \o (IF FGt(DixonQHigh, DixonQCrit) THEN <<columnData[MaxPos].index>> ELSE <<>>)

\* a column of more than ten values whose minimum and maximum are both flagged
C7_Witness ==
    /\ Analysed
    /\ Len(columnData) > 10
    /\ Len(Result.dixon) = 2
    /\ Result.dixon[1] = columnData[MinPos].index
    /\ Result.dixon[2] = columnData[MaxPos].index

(***************************************************************************)
(* Properties of the ESD test                                              *)
(***************************************************************************)
ESDReturned == esd # <<>> /\ esd[1].pc = "returned"

\* what findOutliersESD returns is what its loop, a pass at a time, returns
ESDLoopAgrees == ESDReturned => esd[1].result = findOutliersESD(columnData)

\* at most floor(n * 0.1) indices, all different, all of the column
ESDResultBounded ==
    ESDReturned =>
        /\ 10 * Len(esd[1].result) <= Len(columnData)
        /\ \A p, q \in 1..Len(esd[1].result) :
              p # q => esd[1].result[p] # esd[1].result[q]
        /\ \A p \in 1..Len(esd[1].result) :
              \E i \in 1..Len(columnData) : columnData[i].index = esd[1].result[p]

\* the deviations of the points not yet removed, from their own mean and stdDev
RemainingDeviations ==
    Deviations(esd[1].currentData, getStats(Values(esd[1].currentData)))

\* a pass of the loop: when the greatest deviation of the remaining points
\* from their own mean exceeds 2.5 the first point that has it is removed and
\* recorded, and else the loop ends with nothing removed
ESDPassRemovesMaximum ==
    (esd # <<>> /\ esd[1].pc = "loop" /\ esd' # esd /\ esd'[1].pc # "returned") =>
        Bind(RemainingDeviations, LAMBDA dev :
            IF /\ Len(esd[1].currentData) >= 3
               /\ getStats(Values(esd[1].currentData)).stdDev # Zero
               /\ \E k \in 1..Len(dev) : FGt(dev[k], ESD_CRITICAL)
            THEN \E k \in 1..Len(dev) :
                    /\ \A j \in 1..Len(dev) : ~FGt(dev[j], dev[k])
                    /\ \A j \in 1..(k - 1) : FLt(dev[j], dev[k])
                    /\ esd'[1].currentData = Splice(esd[1].currentData, k)
                    /\ esd'[1].outliers = Append(esd[1].outliers, esd[1].currentData[k])
                    /\ esd'[1].pc = "loop"
            ELSE /\ esd'[1].pc = "return"
                 /\ esd'[1].currentData = esd[1].currentData
                 /\ esd'[1].outliers = esd[1].outliers)

\* C6: findOutliersESD returns at most floor(n * 0.1) indices, all different
\* indices of the column; every pass of its loop takes the mean and stdDev
\* of the points not yet removed, and the loop ends at the first pass whose
\* greatest deviation does not exceed 2.5.
C6_ESDRecomputesAndStops == []ESDResultBounded /\ [][ESDPassRemovesMaximum]_vars

\* the loop ended after one removal, on a pass whose greatest deviation did
\* not exceed 2.5, with a pass to spare
C6_Witness ==
    /\ ESDReturned
    /\ Len(esd[1].result) = 1
    /\ esd[1].maxOutliers = 2
    /\ getStats(Values(esd[1].currentData)).stdDev # Zero

\* a pass of the loop is about to run
ESDPassPending ==
    esd # <<>> /\ esd[1].pc = "loop" /\ esd[1].i < esd[1].maxOutliers

\* C12: with the default maxOutliers = floor(n * 0.1), findOutliersESD runs no
\* pass of its loop and returns an empty result for every column of fewer
\* than 10 rows, and no pass of the loop ever starts with fewer than 3 points
\* remaining, so that the loop never ends on that condition.
C12_ESDEmptyBelowTenRows ==
    /\ (esd # <<>> /\ Len(columnData) < 10) =>
          /\ ~ESDPassPending
          /\ esd[1].outliers = <<>>
          /\ esd[1].result = <<>>
    /\ ESDPassPending => Len(esd[1].currentData) >= 3

\* a column of 5 to 9 rows with a point more than 2.5 standard deviations
\* from the mean, and an empty result
C12_Witness ==
    /\ ESDReturned
    /\ Len(columnData) \in 5..9
    /\ esd[1].result = <<>>
    /\ \E k \in 1..Len(columnData) :
          FGt(Deviations(columnData, getStats(Values(columnData)))[k], ESD_CRITICAL)

=============================================================================
